---- MODULE Spec2Model ----
(***************************************************************************)
(* Authenticated-session polling in the custom integrations:               *)
(*   - OmadaClient (omada_direct/client.py): cookie session, login,        *)
(*     fetch, logout, close;                                               *)
(*   - OmadaClientUpdateCoordinator (omada_direct/coordinator.py) and the  *)
(*     config-entry setup/unload of omada_direct/__init__.py;              *)
(*   - CowboyUpdateCoordinator (cowboy/coordinator.py);                    *)
(*   - the line handler of the PCA301 controller (switch/pca301.py).       *)
(* One asyncio event loop: an action is the code a task runs between two   *)
(* suspension points (an await on network I/O).                            *)
(***************************************************************************)
EXTENDS Integers, Sequences, FiniteSets, TLC

\* ------------------------------------------------------------------ bounds
\* number of distinct client MACs the access point may report
NumMacs == 2
\* number of distinct firmware versions a Cowboy bike may report
NumFirmware == 2
\* watchdog duration of a coordinator tick, in clock steps (spec 4.2 step 1)
WatchdogTimeout == 1
\* the clock is observed one step past the watchdog duration
MaxWait == WatchdogTimeout + 1
\* number of distinct PCA301 node numbers on the air
NumNodes == 2

\* ------------------------------------------------------- program constants
\* asyncio.timeout(10) of the Cowboy coordinator, in seconds
COWBOY_TIMEOUT == 10
\* divisors of the PCA301 consumption readings (total, current)
TOTAL_DIVISOR == 10
CURRENT_DIVISOR == 100
\* the high byte of a reading is shifted by this many bits
BYTE_SHIFT == 8

Macs == 1..NumMacs

\* the 'data' lists a status.client.user.json payload may carry: ascending
\* MAC sequences, one per subset of Macs
ClientLists ==
    {s \in UNION {[1..n -> Macs] : n \in 0..NumMacs} :
        \A i \in 1..(Len(s) - 1) : s[i] < s[i + 1]}

\* parsed bodies of the data request: a JSON mapping with or without the
\* 'data' key, a JSON value that is not a mapping, or text that is not JSON
Bodies ==
    {[json |-> "mapping", has_data |-> TRUE, data |-> l] : l \in ClientLists}
    \cup {[json |-> j, has_data |-> FALSE, data |-> <<>>] :
             j \in {"mapping", "list", "invalid"}}

Statuses == {200, 401, 500}
\* how a request ends: an HTTP response, ClientConnectorError,
\* asyncio.TimeoutError, or any other exception of the HTTP library
Transports == {"http", "conn_error", "timeout", "other_error"}
\* Set-Cookie of a response for JSESSIONID: none, an empty value, a value
SetCookies == {"none", "empty", "valid"}

Threads == {"main", "scheduled", "manual"}
Tickers == {"scheduled", "manual"}

\* ------------------------------------------------------ exception classes
ExcParent ==
    [LoginError |-> "OmadaClientError", FetchDataError |-> "OmadaClientError",
     LogoutError |-> "OmadaClientError", OmadaClientError |-> "Exception",
     UpdateFailed |-> "HomeAssistantError", HomeAssistantError |-> "Exception",
     AttributeError |-> "Exception", RuntimeError |-> "Exception",
     KeyError |-> "LookupError", LookupError |-> "Exception",
     TimeoutError |-> "OSError", ConnectionError |-> "OSError",
     SSLError |-> "OSError", OSError |-> "Exception",
     Exception |-> "BaseException", BaseException |-> "object"]

RECURSIVE IsInstance(_, _)
\* isinstance(exc, cls) along the class hierarchy
IsInstance(exc, cls) ==
    IF exc = cls THEN TRUE
    ELSE IF exc \notin DOMAIN ExcParent THEN FALSE
    ELSE IsInstance(ExcParent[exc], cls)

VARIABLES
    \* OmadaClient
    session,        \* "none" (None), "open", "closed" (session.closed)
    closes,         \* calls of session.close() made on the current session
    orphan,         \* a session that self.session no longer refers to was
                    \* left open
    logged_in,      \* self.logged_in
    jar,            \* JSESSIONID in the session's cookie jar: absent/empty/valid
    \* the access point
    remote_session, \* it holds a live session for the JSESSIONID it issued
    \* tasks on the event loop
    pc,             \* per thread: "idle" or the request it awaits
    via_fetch,      \* per thread: the awaited login was started by fetch_clients
    \* OmadaClientUpdateCoordinator and the config entry
    data,           \* coordinator.data: <<>> (None) or <<snapshot>>
    clients_info,   \* coordinator.clients_info
    last_update_success,
    entry_state,    \* where the config entry (or a direct caller) stands
    registry,       \* entry_id \in hass.data[DOMAIN]
    platforms,      \* platforms forwarded
    entities,       \* MACs of the OmadaClientEntity objects handed to
                    \* async_add_entities
    refresh_requested, \* a manual refresh was requested and has not run yet
    access_point_mac, \* coordinator.access_point_mac
    \* observation of the run
    result,         \* how the last _async_update_data ended
    returned,       \* <<>> or <<value>> of the last _async_update_data return
    login_sent,     \* per ticker: login requests sent in its current tick
    started_auth,   \* per ticker: logged_in when its current tick started
    authRejected,   \* a data request was rejected with 401; no login sent since
    waited,         \* per ticker: clock steps spent in the current tick
    ev,             \* what the last step did
    \* CowboyUpdateCoordinator
    cowboy_pc,      \* "idle" or "fetching" (fetch_data runs in the executor)
    cowboy_clock,   \* seconds since asyncio.timeout(10) was entered
    cowboy_result,  \* how the last Cowboy _async_update_data ended
    cowboy_data,    \* coordinator.data: <<>> (None) or <<vars(bike)>>
    cowboy_sw_version, \* device_info["sw_version"], 0 while unset
    \* the Cowboy config entry
    cowboy_entry,   \* where the Cowboy config entry stands
    cowboy_registry, \* entry_id \in hass.data[DOMAIN] of cowboy
    cowboy_platforms, \* platforms forwarded for the Cowboy entry
    \* the host
    entry_domain,   \* integration the config entry belongs to
    flow,           \* config flow: what connect()/login() raised in
                    \* validate_input, how it and the user step ended
    \* PCA301Ctrl
    devices,        \* the devices dict: node id text -> plug, or NoPlug
    add_devices,    \* per node id text: plugs handed to add_devices
    reported,       \* per node id text: a status line for it was handled
    pca_ev          \* what the last handle_line did

vars == <<session, closes, orphan, logged_in, jar, pc, via_fetch, data, clients_info,
          last_update_success, entry_state, registry, platforms, entities,
          access_point_mac, refresh_requested, result, remote_session,
          returned, login_sent, started_auth, authRejected, waited, ev,
          cowboy_pc, cowboy_clock, cowboy_result, cowboy_data,
          cowboy_sw_version, cowboy_entry, cowboy_registry,
          cowboy_platforms, entry_domain, flow, devices, add_devices,
          reported, pca_ev>>

clientVars == <<session, closes, orphan, logged_in, jar>>
coordVars == <<data, last_update_success, result, returned>>
tickObs == <<login_sent, started_auth, waited>>
cowboyEntryVars == <<cowboy_entry, cowboy_registry, cowboy_platforms>>
cowboyVars == <<cowboy_pc, cowboy_clock, cowboy_result, cowboy_data,
               cowboy_sw_version, cowboyEntryVars>>
omadaVars == <<session, closes, orphan, logged_in, jar, pc, via_fetch, data, clients_info,
              last_update_success, entry_state, registry, platforms, entities,
              access_point_mac, result, returned, login_sent, started_auth,
              authRejected, waited, ev, refresh_requested, remote_session>>
pcaVars == <<devices, add_devices, reported, pca_ev>>
hostVars == <<entry_domain, flow, pcaVars>>

\* ------------------------------------------------------------ OmadaClient
\* the client's fields as one value
Client ==
    [session |-> session, closes |-> closes, orphan |-> orphan,
     logged_in |-> logged_in,
     jar |-> jar]

\* connect(): a new ClientSession with a fresh cookie jar replaces
\* self.session, whatever it referred to is not closed; a constructor failure raises OmadaClientError, a failure of
\* the SSL context set-up (outside the try) raises raw
ConnectOutcomes == {"ok", "OmadaClientError", "SSLError"}

connect(c, outcome) ==
    IF outcome = "ok"
    THEN [c EXCEPT !.session = "open", !.closes = 0, !.jar = "absent",
                   !.orphan = @ \/ c.session = "open"]
    ELSE c

\* cookie jar after a response with the given Set-Cookie
UpdateJar(j, setcookie) == IF setcookie = "none" THEN j ELSE setcookie

\* ensure_authenticated without the early return of lines 183-185: logs in
\* on every call
ensure_authenticated_noguard(c, conn) ==
    LET c1 == IF c.session = "none" THEN connect(c, conn) ELSE c
    IN  IF c.session = "none" /\ conn # "ok"
        THEN [c |-> c1, next |-> "raise", exc |-> conn]
        ELSE IF c1.session = "closed"
        THEN [c |-> c1, next |-> "raise", exc |-> "LoginError"]
        ELSE [c |-> c1, next |-> "post", exc |-> "none"]

\* ensure_authenticated that sets up a new transport on every login
ensure_authenticated_reconnects(c, conn) ==
    IF c.logged_in
    THEN [c |-> c, next |-> "return", exc |-> "none"]
    ELSE LET c1 == connect(c, conn)
         IN  IF conn # "ok"
             THEN [c |-> c1, next |-> "raise", exc |-> conn]
             ELSE [c |-> c1, next |-> "post", exc |-> "none"]

\* ensure_authenticated() up to its await of the login POST.
\* next: "return" (already authenticated), "post" (login request on the
\* wire), "raise" (exc escapes ensure_authenticated)
ensure_authenticated(c, conn) ==
    IF c.logged_in
    THEN [c |-> c, next |-> "return", exc |-> "none"]
    ELSE LET c1 == IF c.session = "none" THEN connect(c, conn) ELSE c
         IN  IF c.session = "none" /\ conn # "ok"
             THEN [c |-> c1, next |-> "raise", exc |-> conn]
             ELSE IF c1.session = "closed"
             \* session.post on a closed session: RuntimeError, line 245
             THEN [c |-> c1, next |-> "raise", exc |-> "LoginError"]
             ELSE [c |-> c1, next |-> "post", exc |-> "none"]

\* LoginResult without the JSESSIONID check of lines 211-214
LoginResult_nocookie(kind, status, marker, cl0, j) ==
    IF kind # "http" THEN "LoginError"
    ELSE IF status = 200 /\ (marker \/ cl0) THEN "ok" ELSE "LoginError"

\* the login response as ensure_authenticated judges it (lines 204-247):
\* "ok" sets logged_in, anything else is the exception raised
LoginResult(kind, status, marker, cl0, j) ==
    IF kind # "http" THEN "LoginError"
    ELSE IF status = 200
         THEN IF marker \/ cl0
              THEN IF j = "valid" THEN "ok" ELSE "LoginError"
              ELSE "LoginError"
         ELSE "LoginError"

\* fetch_clients() after its ensure_authenticated step: the GET is sent on
\* an open session; on no session or a closed one the call raises inside
\* the try and surfaces as FetchDataError (line 299)
fetch_clients_get(c) ==
    IF c.session = "open"
    THEN [c |-> c, next |-> "get", exc |-> "none"]
    ELSE [c |-> c, next |-> "raise", exc |-> "FetchDataError"]

\* fetch_clients() up to its first await
fetch_clients(c, conn) ==
    LET ea == ensure_authenticated(c, conn)
    IN  IF ea.next = "raise"
        THEN [ea EXCEPT !.exc = IF IsInstance(ea.exc, "LoginError")
                                THEN "FetchDataError" ELSE ea.exc]
        ELSE IF ea.next = "post" THEN ea
        ELSE fetch_clients_get(ea.c)

\* fetch_device_info() up to its await of the GET (lines 314-319): it does
\* not call ensure_authenticated; session.get on no session (AttributeError)
\* or on a closed one (RuntimeError) raises inside the try and surfaces as
\* FetchDataError (line 333)
fetch_device_info(c) ==
    IF c.session = "open"
    THEN [c |-> c, next |-> "devget", exc |-> "none"]
    ELSE [c |-> c, next |-> "raise", exc |-> "FetchDataError"]

\* the data response as fetch_clients judges it (lines 272-303):
\* "ok" returns the parsed body, anything else is the exception raised
FetchResult(kind, status, body) ==
    IF kind # "http" THEN "FetchDataError"
    ELSE IF status = 200
         THEN IF body.json = "invalid" THEN "FetchDataError" ELSE "ok"
         ELSE "FetchDataError"

\* logout() without the early return of lines 345-347
logout_unguarded(c) ==
    IF c.session # "open"
    THEN [c |-> c, next |-> "raise", exc |-> "LogoutError"]
    ELSE [c |-> c, next |-> "get", exc |-> "none"]

\* logout() up to its await of the GET (lines 345-353): nothing to do
\* without a session or when not logged in; session.get on a closed session
\* raises RuntimeError, reported as LogoutError (line 368)
logout(c) ==
    IF c.session = "none" \/ ~c.logged_in
    THEN [c |-> c, next |-> "return", exc |-> "none"]
    ELSE IF c.session = "closed"
    THEN [c |-> c, next |-> "raise", exc |-> "LogoutError"]
    ELSE [c |-> c, next |-> "get", exc |-> "none"]

\* the logout response as logout() judges it (lines 354-370): "ok" clears
\* logged_in, anything else is the exception raised
LogoutResult(kind, status) ==
    IF kind = "http" /\ status = 200 THEN "ok" ELSE "LogoutError"

\* close() without the test of session.closed
close_unguarded(c) ==
    IF c.session # "none"
    THEN [c EXCEPT !.session = "closed", !.closes = @ + 1]
    ELSE c

\* close(): closes a session that exists and is not closed yet
close(c) ==
    IF c.session = "open"
    THEN [c EXCEPT !.session = "closed", !.closes = @ + 1]
    ELSE c

\* aiohttp fails every request on a session that is not open; an HTTP
\* response can only arrive on an open session
Arrives(kind) == kind = "http" => session = "open"

\* the access point's side of a login: a 200 answer that sets JSESSIONID
\* has opened a session there
RemoteAfterLogin(rs, r) ==
    IF r.kind = "http" /\ r.status = 200 /\ r.cookie = "valid" THEN TRUE
    ELSE rs

\* the access point's side of a logout: a 200 answer has ended the session
RemoteAfterLogout(rs, r) ==
    IF r.kind = "http" /\ r.status = 200 THEN FALSE ELSE rs

\* the access point serves data (status 200 with a JSON body) only to a
\* request that carries the JSESSIONID of a live session; any other answer
\* is possible at any time
Serves(kind, status, json) ==
    (kind = "http" /\ status = 200 /\ json # "invalid") =>
        (remote_session /\ jar = "valid")

LoginResponses ==
    {r \in [kind : Transports, status : Statuses \cup {0}, marker : BOOLEAN,
            cl0 : BOOLEAN, cookie : SetCookies] :
        IF r.kind = "http" THEN r.status # 0
        ELSE r.status = 0 /\ ~r.marker /\ ~r.cl0 /\ r.cookie = "none"}

DataResponses ==
    {r \in [kind : Transports, status : Statuses \cup {0}, body : Bodies,
            cookie : SetCookies] :
        IF r.kind = "http"
        THEN r.status # 0 /\ (r.status # 200 => r.body.json = "invalid")
        ELSE r.status = 0 /\ r.body.json = "invalid" /\ r.cookie = "none"}

LogoutResponses ==
    {r \in [kind : Transports, status : Statuses \cup {0},
            cookie : SetCookies] :
        IF r.kind = "http" THEN r.status # 0
        ELSE r.status = 0 /\ r.cookie = "none"}

\* ------------------------------------------------------ step observation
NoEv == [op |-> "init", thread |-> "main", ea_unauth |-> FALSE,
         post_sent |-> FALSE, kind |-> "none", status |-> 0,
         marker |-> FALSE, cl0 |-> FALSE, exc |-> "none",
         session0 |-> "none"]

\* (session0: the session as a call of close(), login(), fetch_clients() or
\* a tick found it)
\* a step that entered ensure_authenticated (ea_unauth: with logged_in
\* false) and may have put a login POST on the wire
CallEv(op, t, ea_unauth, post_sent, exc) ==
    [NoEv EXCEPT !.op = op, !.thread = t, !.ea_unauth = ea_unauth,
                 !.post_sent = post_sent, !.exc = exc]

\* a step that consumed the response r of a request
RespEv(op, t, r, exc) ==
    [NoEv EXCEPT !.op = op, !.thread = t, !.kind = r.kind,
                 !.status = r.status, !.exc = exc]

LoginEv(op, t, r, exc) ==
    [RespEv(op, t, r, exc) EXCEPT !.marker = r.marker, !.cl0 = r.cl0]

\* ------------------------------------------- OmadaClientUpdateCoordinator
Snapshot(l, ap) == [clients |-> l, access_point_mac |-> ap]

\* UpdateWrap with a handler for the client's own exceptions only
UpdateWrap_narrow(exc) ==
    IF IsInstance(exc, "OmadaClientError") THEN "UpdateFailed" ELSE exc

\* except Exception as e: raise UpdateFailed (coordinator.py 37-38)
UpdateWrap(exc) ==
    IF IsInstance(exc, "Exception") THEN "UpdateFailed" ELSE exc

\* UpdateData that clears clients_info when the payload is unusable
UpdateData_resets(body, ci, ap) ==
    IF body.json = "mapping"
    THEN LET l == IF body.has_data THEN body.data ELSE <<>>
         IN  [outcome |-> "returned", value |-> Snapshot(l, ap),
              clients_info |-> l]
    ELSE [outcome |-> "UpdateFailed",
          value |-> Snapshot(<<>>, ap), clients_info |-> <<>>]

\* coordinator.py 30-35 on the value fetch_clients returned: .get on a
\* mapping, AttributeError on anything else
UpdateData(body, ci, ap) ==
    IF body.json = "mapping"
    THEN LET l == IF body.has_data THEN body.data ELSE <<>>
         IN  [outcome |-> "returned", value |-> Snapshot(l, ap),
              clients_info |-> l]
    ELSE [outcome |-> UpdateWrap("AttributeError"),
          value |-> Snapshot(<<>>, ap), clients_info |-> ci]

\* DataUpdateCoordinator: a returned value replaces coordinator.data, a
\* failed update leaves it
Publish(old, outcome, value) ==
    IF outcome = "returned" THEN <<value>> ELSE old

\* a coordinator that starts a refresh whenever one is asked for
SingleFlight_none(t) == TRUE

\* DataUpdateCoordinator: one refresh at a time per coordinator
SingleFlight(t) == \A u \in Tickers : pc[u] = "idle"

\* a coordinator exists: created by async_setup_entry (line 58) or by a
\* direct caller
CoordinatorExists == entry_state \in {"first_refresh", "loaded", "direct"}

\* a refresh runs on a coordinator that exists: the first refresh of
\* async_setup_entry (line 65), a tick or manual refresh of a loaded entry,
\* or a refresh of a coordinator that a direct caller built on its client
MayStart(t) ==
    /\ pc[t] = "idle"
    /\ \/ entry_state = "loaded"
       \/ entry_state = "first_refresh" /\ t = "scheduled"
       \/ entry_state = "direct" /\ pc["main"] = "idle"
    /\ t = "manual" => refresh_requested
    /\ SingleFlight(t)

\* DataUpdateCoordinator.async_config_entry_first_refresh raises
\* ConfigEntryNotReady when the refresh it ran did not return a value
FirstRefreshRaises(outcome) == outcome # "returned"

\* an async_setup_entry that goes on after a failed first refresh
SetupAfterFirstRefresh_forwards(raised) == "loaded"

\* async_setup_entry from the await of the first refresh on (omada_direct
\* __init__.py 65-70, cowboy __init__.py 31-41): an exception leaves the
\* function there, otherwise the platforms are forwarded and True returned
SetupAfterFirstRefresh(raised) == IF raised THEN "not_ready" ELSE "loaded"

\* OmadaClientEntity.is_connected: True, whatever the coordinator holds
is_connected(published, mac) == TRUE

\* device_tracker.async_setup_entry: one OmadaClientEntity per client of
\* coordinator.data that carries a MAC (every client of ClientLists does);
\* it runs once, when the platform is forwarded, and registers no listener;
\* on a coordinator without data the .get of line 26 raises and nothing is
\* added
tracker_setup_entry(published) ==
    IF published = <<>> THEN {}
    ELSE {published[1].clients[i] : i \in DOMAIN published[1].clients}

\* the end of _async_update_data and of the refresh that ran it; a failed
\* first refresh raises ConfigEntryNotReady out of async_setup_entry, a
\* successful one lets setup forward the platforms and return True
Finish(t, outcome, value, ci) ==
    /\ pc' = [pc EXCEPT ![t] = "idle"]
    /\ via_fetch' = [via_fetch EXCEPT ![t] = FALSE]
    /\ result' = outcome
    /\ login_sent' = [login_sent EXCEPT ![t] = 0]
    /\ started_auth' = [started_auth EXCEPT ![t] = FALSE]
    /\ waited' = [waited EXCEPT ![t] = 0]
    /\ returned' = IF outcome = "returned" THEN <<value>> ELSE returned
    /\ clients_info' = ci
    /\ data' = Publish(data, outcome, value)
    /\ last_update_success' = (outcome = "returned")
    /\ IF entry_state = "first_refresh"
       THEN LET s == SetupAfterFirstRefresh(FirstRefreshRaises(outcome))
            IN  /\ entry_state' = s
                /\ platforms' = (s = "loaded")
                /\ entities' = IF s = "loaded"
                               THEN tracker_setup_entry(
                                        Publish(data, outcome, value))
                               ELSE entities
       ELSE UNCHANGED <<entry_state, platforms, entities>>
    /\ UNCHANGED registry

SetClient(c) ==
    /\ session' = c.session
    /\ closes' = c.closes
    /\ orphan' = c.orphan
    /\ logged_in' = c.logged_in
    /\ jar' = c.jar

\* DataUpdateCoordinator.async_request_refresh: a manual refresh is asked
\* for, at any time, also while a tick is in flight
RequestRefresh ==
    /\ CoordinatorExists
    /\ ~refresh_requested
    /\ refresh_requested' = TRUE
    /\ ev' = CallEv("request_refresh", "manual", FALSE, FALSE, "none")
    /\ UNCHANGED <<clientVars, pc, via_fetch, coordVars, clients_info,
                   entry_state, registry, platforms, entities, access_point_mac,
                   tickObs, authRejected, cowboyVars, hostVars,
                   remote_session>>

\* _async_update_data up to its first await: ensure_authenticated (line 26)
\* and, when that returns at once, fetch_clients (line 29)
TickStart(t) ==
    /\ MayStart(t)
    /\ \E conn \in ConnectOutcomes :
        LET ea == ensure_authenticated(Client, conn)
            fc == IF ea.next = "return" THEN fetch_clients(ea.c, conn) ELSE ea
        IN  /\ SetClient(fc.c)
            /\ authRejected' = IF fc.next = "post" THEN FALSE ELSE authRejected
            /\ ev' = [CallEv("tick_start", t, ~logged_in, fc.next = "post",
                             fc.exc) EXCEPT !.session0 = session]
            /\ IF fc.next = "raise"
               THEN Finish(t, UpdateWrap(fc.exc), Snapshot(<<>>, access_point_mac),
                           clients_info)
               ELSE /\ pc' = [pc EXCEPT ![t] = fc.next]
                    /\ via_fetch' = [via_fetch EXCEPT
                                       ![t] = (ea.next = "return"
                                               /\ fc.next = "post")]
                    /\ started_auth' = [started_auth EXCEPT ![t] = logged_in]
                    /\ login_sent' = [login_sent EXCEPT
                                         ![t] = IF fc.next = "post" THEN 1
                                                ELSE 0]
                    /\ waited' = [waited EXCEPT ![t] = 0]
                    /\ UNCHANGED <<coordVars, clients_info, entry_state,
                                   registry, platforms, entities>>
    /\ refresh_requested' = IF t = "manual" THEN FALSE ELSE refresh_requested
    /\ UNCHANGED <<access_point_mac, cowboyVars, hostVars,
                   remote_session>>

\* the login response arrives in a tick; on success ensure_authenticated
\* returns and the tick goes on to the GET of fetch_clients, on failure the
\* LoginError (FetchDataError when fetch_clients started the login) is
\* wrapped into UpdateFailed
TickLoginResponse(t) ==
    /\ t \in Tickers
    /\ pc[t] = "post"
    /\ \E r \in LoginResponses :
        /\ Arrives(r.kind)
        /\ remote_session' = RemoteAfterLogin(remote_session, r)
        /\ LET j == UpdateJar(jar, r.cookie)
               res == LoginResult(r.kind, r.status, r.marker, r.cl0, j)
               c1 == [Client EXCEPT !.jar = j,
                                    !.logged_in = IF res = "ok" THEN TRUE ELSE @]
               fc == fetch_clients_get(c1)
               exc == IF res = "ok" THEN fc.exc
                      ELSE IF via_fetch[t] THEN "FetchDataError" ELSE res
           IN  /\ SetClient(c1)
               /\ ev' = LoginEv("login_response", t, r,
                                IF res = "ok" THEN "none" ELSE res)
               /\ IF res = "ok" /\ fc.next = "get"
                  THEN /\ pc' = [pc EXCEPT ![t] = "get"]
                       /\ via_fetch' = [via_fetch EXCEPT ![t] = FALSE]
                       /\ UNCHANGED <<coordVars, clients_info, entry_state,
                                      registry, platforms, entities, tickObs>>
                  ELSE Finish(t, UpdateWrap(exc),
                              Snapshot(<<>>, access_point_mac), clients_info)
    /\ UNCHANGED <<access_point_mac, authRejected,
                   refresh_requested, cowboyVars, hostVars>>

\* the data response arrives in a tick: fetch_clients returns the parsed
\* body or raises FetchDataError, and _async_update_data ends
TickDataResponse(t) ==
    /\ t \in Tickers
    /\ pc[t] = "get"
    /\ \E r \in DataResponses :
        /\ Arrives(r.kind)
        /\ Serves(r.kind, r.status, r.body.json)
        /\ LET res == FetchResult(r.kind, r.status, r.body)
               upd == UpdateData(r.body, clients_info, access_point_mac)
           IN  /\ jar' = UpdateJar(jar, r.cookie)
               /\ ev' = RespEv("data_response", t, r,
                               IF res = "ok" THEN "none" ELSE res)
               /\ authRejected' = IF r.kind = "http" /\ r.status = 401
                                     /\ logged_in
                                  THEN TRUE ELSE authRejected
               /\ IF res = "ok"
                  THEN Finish(t, upd.outcome, upd.value, upd.clients_info)
                  ELSE Finish(t, UpdateWrap(res),
                              Snapshot(<<>>, access_point_mac), clients_info)
    /\ UNCHANGED <<session, closes, orphan, logged_in, access_point_mac,
                   refresh_requested, cowboyVars, hostVars,
                   remote_session>>

\* time passes while a tick awaits a response
TickClock(t) ==
    /\ t \in Tickers
    /\ pc[t] # "idle"
    /\ waited[t] < MaxWait
    /\ waited' = [waited EXCEPT ![t] = @ + 1]
    /\ ev' = CallEv("clock", t, FALSE, FALSE, "none")
    /\ UNCHANGED <<clientVars, pc, via_fetch, coordVars, clients_info,
                   entry_state, registry, platforms, entities, access_point_mac,
                   login_sent, started_auth, authRejected,
                   refresh_requested, cowboyVars, hostVars,
                   remote_session>>

\* the access point drops the session (idle timeout, reboot, a login from
\* elsewhere); the client is not told
RemoteExpire ==
    /\ entry_domain = "omada_direct"
    /\ remote_session
    /\ remote_session' = FALSE
    /\ ev' = CallEv("remote_expire", "main", FALSE, FALSE, "none")
    /\ UNCHANGED <<clientVars, pc, via_fetch, coordVars, clients_info,
                   entry_state, registry, platforms, entities, access_point_mac,
                   tickObs, authRejected, refresh_requested, cowboyVars,
                   hostVars>>

\* ------------------------------------------------ omada_direct/__init__.py
\* parsed bodies of status.device.json: a mapping whose 'data' has or lacks
\* 'mac', a JSON value that is not a mapping, text that is not JSON
DevResponses ==
    {r \in [kind : Transports, status : Statuses \cup {0},
            json : {"mapping", "list", "invalid"}, has_mac : BOOLEAN,
            cookie : SetCookies] :
        /\ r.json # "mapping" => ~r.has_mac
        /\ IF r.kind = "http"
           THEN r.status # 0 /\ (r.status # 200 => r.json = "invalid")
           ELSE r.status = 0 /\ r.json = "invalid" /\ r.cookie = "none"}

\* fetch_device_info (client.py 305-337): every failure inside the try,
\* an unparsable body included, is raised as FetchDataError
DeviceInfoResult(kind, status, json) ==
    IF kind # "http" THEN "FetchDataError"
    ELSE IF status = 200
         THEN IF json = "invalid" THEN "FetchDataError" ELSE "ok"
         ELSE "FetchDataError"

\* register_device (device.py 14-27): the normalised MAC, or "unknown"
register_device(has_mac) == IF has_mac THEN "mac" ELSE "unknown"

\* async_setup_entry with the handler of line 45 only
SetupHandler_narrow(exc) ==
    IF IsInstance(exc, "LoginError") \/ IsInstance(exc, "FetchDataError")
    THEN "setup_false"
    ELSE "setup_raised"

\* the handlers around connect() and login() (lines 45-50): both return
\* False; what is no Exception leaves async_setup_entry
SetupHandler(exc) ==
    IF IsInstance(exc, "LoginError") \/ IsInstance(exc, "FetchDataError")
    THEN "setup_false"
    ELSE IF IsInstance(exc, "Exception") THEN "setup_false"
    ELSE "setup_raised"

\* async_setup_entry lines 26-50: connect(), then login() up to its await;
\* any exception of connect() makes setup return False
SetupStart ==
    /\ entry_domain = "omada_direct"
    /\ entry_state = "new"
    /\ pc["main"] = "idle"
    /\ \E conn \in ConnectOutcomes :
        LET c1 == connect(Client, conn)
            ea == ensure_authenticated(c1, conn)
        IN  IF conn # "ok"
            THEN /\ entry_state' = SetupHandler(conn)
                 /\ ev' = CallEv("setup_start", "main", FALSE, FALSE, conn)
                 /\ UNCHANGED <<clientVars, pc>>
            ELSE /\ SetClient(ea.c)
                 /\ ev' = CallEv("setup_start", "main", ~c1.logged_in,
                                 ea.next = "post", ea.exc)
                 /\ IF ea.next = "post"
                    THEN /\ pc' = [pc EXCEPT !["main"] = "post"]
                         /\ entry_state' = "setting_up"
                    ELSE /\ entry_state' = SetupHandler(ea.exc)
                         /\ UNCHANGED pc
    /\ UNCHANGED <<via_fetch, coordVars, clients_info, registry, platforms, entities,
                   access_point_mac, tickObs, authRejected,
                   refresh_requested, cowboyVars, hostVars,
                   remote_session>>

\* the login response arrives in setup (lines 44-53): LoginError makes setup
\* return False, success sends the GET of fetch_device_info
SetupLoginResponse ==
    /\ entry_state = "setting_up"
    /\ pc["main"] = "post"
    /\ \E r \in LoginResponses :
        /\ Arrives(r.kind)
        /\ remote_session' = RemoteAfterLogin(remote_session, r)
        /\ LET j == UpdateJar(jar, r.cookie)
               res == LoginResult(r.kind, r.status, r.marker, r.cl0, j)
           IN  /\ jar' = j
               /\ logged_in' = IF res = "ok" THEN TRUE ELSE logged_in
               /\ ev' = LoginEv("login_response", "main", r,
                                IF res = "ok" THEN "none" ELSE res)
               /\ IF res = "ok"
                  THEN /\ pc' = [pc EXCEPT !["main"] = "devget"]
                       /\ UNCHANGED entry_state
                  ELSE /\ pc' = [pc EXCEPT !["main"] = "idle"]
                       /\ entry_state' = SetupHandler(res)
    /\ UNCHANGED <<session, closes, orphan, via_fetch, coordVars, clients_info, registry,
                   platforms, entities, access_point_mac, tickObs, authRejected,
                   refresh_requested, cowboyVars, hostVars>>

\* the device-info response arrives in setup (lines 53-65): a failure of
\* fetch_device_info or of .get on its result leaves async_setup_entry as an
\* exception; otherwise the coordinator is created and stored in hass.data
\* and the first refresh is due
SetupDeviceInfoResponse ==
    /\ entry_state = "setting_up"
    /\ pc["main"] = "devget"
    /\ \E r \in DevResponses :
        /\ Arrives(r.kind)
        /\ Serves(r.kind, r.status, r.json)
        /\ LET res == DeviceInfoResult(r.kind, r.status, r.json)
               exc == IF res # "ok" THEN res
                      ELSE IF r.json # "mapping" THEN "AttributeError"
                      ELSE "none"
           IN  /\ jar' = UpdateJar(jar, r.cookie)
               /\ ev' = RespEv("device_info_response", "main", r, exc)
               /\ pc' = [pc EXCEPT !["main"] = "idle"]
               /\ IF exc = "none"
                  THEN /\ access_point_mac' = register_device(r.has_mac)
                       /\ clients_info' = <<>>
                       /\ registry' = TRUE
                       /\ entry_state' = "first_refresh"
                  ELSE /\ entry_state' = "setup_raised"
                       /\ UNCHANGED <<access_point_mac, clients_info, registry>>
    /\ UNCHANGED <<session, closes, orphan, logged_in, via_fetch, coordVars, platforms, entities,
                   tickObs, authRejected,
                   refresh_requested, cowboyVars, hostVars,
                   remote_session>>

\* async_unload_entry lines 75-89 up to the await inside logout(): when the
\* platforms unload, the coordinator leaves hass.data, then logout() and
\* close() run inside one try
UnloadStart ==
    /\ entry_state = "loaded"
    /\ pc["main"] = "idle"
    /\ \E unload_ok \in BOOLEAN :
        LET lo == logout(Client)
        IN  IF ~unload_ok
            THEN /\ ev' = CallEv("unload_refused", "main", FALSE, FALSE, "none")
                 /\ UNCHANGED <<clientVars, pc, entry_state, registry,
                                platforms, entities>>
            ELSE /\ registry' = FALSE
                 /\ platforms' = FALSE
                 /\ entities' = {}
                 /\ ev' = CallEv("unload_start", "main", FALSE, FALSE, lo.exc)
                 /\ IF lo.next = "get"
                    THEN /\ pc' = [pc EXCEPT !["main"] = "logout"]
                         /\ entry_state' = "unloading"
                         /\ UNCHANGED clientVars
                    ELSE /\ SetClient(IF lo.next = "return" THEN close(lo.c)
                                      ELSE lo.c)
                         /\ entry_state' = "unloaded"
                         /\ UNCHANGED pc
    /\ UNCHANGED <<via_fetch, coordVars, clients_info, access_point_mac,
                   tickObs, authRejected,
                   refresh_requested, cowboyVars, hostVars,
                   remote_session>>

\* the logout response arrives in unload (lines 82-87): after a normal
\* return of logout() the session is closed; a LogoutError is caught by the
\* handler of line 84 and close() is not reached
UnloadLogoutResponse ==
    /\ entry_state = "unloading"
    /\ pc["main"] = "logout"
    /\ \E r \in LogoutResponses :
        /\ Arrives(r.kind)
        /\ remote_session' = RemoteAfterLogout(remote_session, r)
        /\ LET res == LogoutResult(r.kind, r.status)
               c1 == [Client EXCEPT !.jar = UpdateJar(jar, r.cookie),
                                    !.logged_in = IF res = "ok" THEN FALSE
                                                  ELSE @]
           IN  /\ SetClient(IF res = "ok" THEN close(c1) ELSE c1)
               /\ ev' = RespEv("logout_response", "main", r,
                               IF res = "ok" THEN "none" ELSE res)
    /\ pc' = [pc EXCEPT !["main"] = "idle"]
    /\ entry_state' = "unloaded"
    /\ UNCHANGED <<via_fetch, coordVars, clients_info, registry, platforms, entities,
                   access_point_mac, tickObs, authRejected,
                   refresh_requested, cowboyVars, hostVars>>

\* --------------------------------------------- omada_direct/config_flow.py
\* validate_input with 'except Exception' as its first handler
ValidateHandler_broad(exc) ==
    IF IsInstance(exc, "Exception") THEN "CannotConnect" ELSE exc

\* the handlers of validate_input (lines 58-66), in their order
ValidateHandler(exc) ==
    IF IsInstance(exc, "LoginError") THEN "InvalidAuth"
    ELSE IF IsInstance(exc, "FetchDataError") THEN "CannotConnect"
    ELSE IF IsInstance(exc, "Exception") THEN "CannotConnect"
    ELSE exc

\* how validate_input ends when connect()/login() ended with exc ("none":
\* normally): the title is returned after the try (line 71)
validate_input(exc) == IF exc = "none" THEN "title" ELSE ValidateHandler(exc)

\* async_step_user on the outcome of validate_input (lines 85-101)
async_step_user(outcome) ==
    IF outcome = "title" THEN "create_entry"
    ELSE IF outcome = "CannotConnect" THEN "cannot_connect"
    ELSE IF outcome = "InvalidAuth" THEN "invalid_auth"
    ELSE "unknown"

FlowEnd(exc) ==
    [exc |-> exc, validate |-> validate_input(exc),
     step |-> async_step_user(validate_input(exc))]

\* validate_input lines 46-56 on a temporary client, up to the await inside
\* login(); when connect() raises, the handler and the finally clause run
FlowStart ==
    /\ entry_domain = "omada_direct"
    /\ entry_state = "new"
    /\ pc["main"] = "idle"
    /\ \E conn \in ConnectOutcomes :
        LET c1 == connect(Client, conn)
            ea == ensure_authenticated(c1, conn)
            exc == IF conn # "ok" THEN conn ELSE ea.exc
        IN  /\ ev' = CallEv("flow_start", "main", ~logged_in,
                            conn = "ok" /\ ea.next = "post", exc)
            /\ IF conn = "ok" /\ ea.next = "post"
               THEN /\ SetClient(ea.c)
                    /\ pc' = [pc EXCEPT !["main"] = "post"]
                    /\ entry_state' = "validating"
                    /\ UNCHANGED flow
               ELSE /\ SetClient(close(c1))
                    /\ flow' = FlowEnd(exc)
                    /\ entry_state' = "validated"
                    /\ UNCHANGED pc
    /\ UNCHANGED <<via_fetch, coordVars, clients_info, registry, platforms, entities,
                   access_point_mac, tickObs, authRejected,
                   refresh_requested, remote_session, cowboyVars,
                   entry_domain, pcaVars>>

\* the login response arrives in validate_input (lines 56-71): the handler
\* that matches runs, then the finally clause closes the temporary client
FlowLoginResponse ==
    /\ entry_state = "validating"
    /\ pc["main"] = "post"
    /\ \E r \in LoginResponses :
        /\ Arrives(r.kind)
        /\ remote_session' = RemoteAfterLogin(remote_session, r)
        /\ LET j == UpdateJar(jar, r.cookie)
               res == LoginResult(r.kind, r.status, r.marker, r.cl0, j)
               c1 == [Client EXCEPT !.jar = j,
                                    !.logged_in = IF res = "ok" THEN TRUE ELSE @]
               exc == IF res = "ok" THEN "none" ELSE res
           IN  /\ SetClient(close(c1))
               /\ ev' = LoginEv("flow_login_response", "main", r, exc)
               /\ flow' = FlowEnd(exc)
    /\ pc' = [pc EXCEPT !["main"] = "idle"]
    /\ entry_state' = "validated"
    /\ UNCHANGED <<via_fetch, coordVars, clients_info, registry, platforms, entities,
                   access_point_mac, tickObs, authRejected,
                   refresh_requested, cowboyVars, entry_domain,
                   pcaVars>>

\* --------------------------------------------- the client called directly
\* A caller other than the config entry (the context-manager use of
\* __aenter__/__aexit__, the temporary client of the config flow) drives the
\* client, and a coordinator built on it, one call at a time.
DirectIdle ==
    /\ entry_domain = "omada_direct"
    /\ entry_state \in {"new", "direct"}
    /\ pc["main"] = "idle"
    /\ \A t \in Tickers : pc[t] = "idle"

DirectFrame ==
    UNCHANGED <<coordVars, clients_info, registry, platforms, entities,
                access_point_mac, tickObs,
                   refresh_requested, cowboyVars, hostVars>>

DirectConnect ==
    /\ DirectIdle
    /\ \E conn \in ConnectOutcomes :
        /\ SetClient(connect(Client, conn))
        /\ ev' = CallEv("connect", "main", FALSE, FALSE,
                        IF conn = "ok" THEN "none" ELSE conn)
    /\ entry_state' = "direct"
    /\ UNCHANGED <<pc, via_fetch, authRejected>>
    /\ UNCHANGED remote_session
    /\ DirectFrame

\* login() / ensure_authenticated()
DirectLogin ==
    /\ DirectIdle
    /\ \E conn \in ConnectOutcomes :
        LET ea == ensure_authenticated(Client, conn)
        IN  /\ SetClient(ea.c)
            /\ ev' = [CallEv("login", "main", ~logged_in, ea.next = "post",
                             ea.exc) EXCEPT !.session0 = session]
            /\ pc' = [pc EXCEPT !["main"] = IF ea.next = "post" THEN "post"
                                            ELSE "idle"]
            /\ authRejected' = IF ea.next = "post" THEN FALSE ELSE authRejected
    /\ entry_state' = "direct"
    /\ UNCHANGED via_fetch
    /\ UNCHANGED remote_session
    /\ DirectFrame

DirectFetchClients ==
    /\ DirectIdle
    /\ \E conn \in ConnectOutcomes :
        LET fc == fetch_clients(Client, conn)
        IN  /\ SetClient(fc.c)
            /\ ev' = [CallEv("fetch_clients", "main", ~logged_in,
                             fc.next = "post", fc.exc)
                         EXCEPT !.session0 = session]
            /\ pc' = [pc EXCEPT !["main"] = IF fc.next = "raise" THEN "idle"
                                            ELSE fc.next]
            /\ via_fetch' = [via_fetch EXCEPT !["main"] = (fc.next = "post")]
            /\ authRejected' = IF fc.next = "post" THEN FALSE ELSE authRejected
    /\ entry_state' = "direct"
    /\ UNCHANGED remote_session
    /\ DirectFrame

DirectLoginResponse ==
    /\ entry_state = "direct"
    /\ pc["main"] = "post"
    /\ \E r \in LoginResponses :
        /\ Arrives(r.kind)
        /\ remote_session' = RemoteAfterLogin(remote_session, r)
        /\ LET j == UpdateJar(jar, r.cookie)
               res == LoginResult(r.kind, r.status, r.marker, r.cl0, j)
               c1 == [Client EXCEPT !.jar = j,
                                    !.logged_in = IF res = "ok" THEN TRUE ELSE @]
               fc == fetch_clients_get(c1)
           IN  /\ SetClient(c1)
               /\ ev' = LoginEv("login_response", "main", r,
                                IF res = "ok" THEN "none" ELSE res)
               /\ pc' = [pc EXCEPT !["main"] =
                            IF res = "ok" /\ via_fetch["main"]
                               /\ fc.next = "get"
                            THEN "get" ELSE "idle"]
    /\ via_fetch' = [via_fetch EXCEPT !["main"] = FALSE]
    /\ UNCHANGED <<entry_state, authRejected>>
    /\ DirectFrame

DirectDataResponse ==
    /\ entry_state = "direct"
    /\ pc["main"] = "get"
    /\ \E r \in DataResponses :
        /\ Arrives(r.kind)
        /\ Serves(r.kind, r.status, r.body.json)
        /\ LET res == FetchResult(r.kind, r.status, r.body)
           IN  /\ jar' = UpdateJar(jar, r.cookie)
               /\ ev' = RespEv("data_response", "main", r,
                               IF res = "ok" THEN "none" ELSE res)
               /\ authRejected' = IF r.kind = "http" /\ r.status = 401
                                     /\ logged_in
                                  THEN TRUE ELSE authRejected
    /\ pc' = [pc EXCEPT !["main"] = "idle"]
    /\ UNCHANGED <<session, closes, orphan, logged_in, via_fetch, entry_state>>
    /\ UNCHANGED remote_session
    /\ DirectFrame

DirectFetchDeviceInfo ==
    /\ DirectIdle
    /\ LET fd == fetch_device_info(Client)
       IN  /\ ev' = CallEv("fetch_device_info", "main", FALSE, FALSE, fd.exc)
           /\ pc' = [pc EXCEPT !["main"] = IF fd.next = "devget" THEN "devget"
                                           ELSE "idle"]
    /\ entry_state' = "direct"
    /\ UNCHANGED <<clientVars, via_fetch, authRejected, remote_session>>
    /\ DirectFrame

DirectDeviceInfoResponse ==
    /\ entry_state = "direct"
    /\ pc["main"] = "devget"
    /\ \E r \in DevResponses :
        /\ Arrives(r.kind)
        /\ Serves(r.kind, r.status, r.json)
        /\ LET res == DeviceInfoResult(r.kind, r.status, r.json)
           IN  /\ jar' = UpdateJar(jar, r.cookie)
               /\ ev' = RespEv("device_info_response", "main", r,
                               IF res = "ok" THEN "none" ELSE res)
    /\ pc' = [pc EXCEPT !["main"] = "idle"]
    /\ UNCHANGED <<session, closes, orphan, logged_in, via_fetch, entry_state, authRejected,
                   remote_session>>
    /\ DirectFrame

DirectLogout ==
    /\ DirectIdle
    /\ LET lo == logout(Client)
       IN  /\ ev' = CallEv("logout", "main", FALSE, FALSE, lo.exc)
           /\ pc' = [pc EXCEPT !["main"] = IF lo.next = "get" THEN "logout"
                                           ELSE "idle"]
    /\ entry_state' = "direct"
    /\ UNCHANGED <<clientVars, via_fetch, authRejected>>
    /\ UNCHANGED remote_session
    /\ DirectFrame

DirectLogoutResponse ==
    /\ entry_state = "direct"
    /\ pc["main"] = "logout"
    /\ \E r \in LogoutResponses :
        /\ Arrives(r.kind)
        /\ remote_session' = RemoteAfterLogout(remote_session, r)
        /\ LET res == LogoutResult(r.kind, r.status)
           IN  /\ jar' = UpdateJar(jar, r.cookie)
               /\ logged_in' = IF res = "ok" THEN FALSE ELSE logged_in
               /\ ev' = RespEv("logout_response", "main", r,
                               IF res = "ok" THEN "none" ELSE res)
    /\ pc' = [pc EXCEPT !["main"] = "idle"]
    /\ UNCHANGED <<session, closes, orphan, via_fetch, entry_state, authRejected>>
    /\ DirectFrame

DirectClose ==
    /\ DirectIdle
    /\ SetClient(close(Client))
    /\ ev' = [CallEv("close", "main", FALSE, FALSE, "none")
                 EXCEPT !.session0 = session]
    /\ entry_state' = "direct"
    /\ UNCHANGED <<pc, via_fetch, authRejected>>
    /\ UNCHANGED remote_session
    /\ DirectFrame

\* ------------------------------------------------ CowboyUpdateCoordinator
\* what getBike() may return, as fetch_data flattens it with vars(bike)
Bikes == [firmware_version : 1..NumFirmware, battery : {0, 100}]

\* what refreshData()/getBike() may raise: a missing key in the API answer,
\* a transport error of the HTTP library, a missing attribute
CowboyErrors == {"KeyError", "ConnectionError", "AttributeError"}

\* except KeyError: raise UpdateFailed (coordinator.py 53-54); no other
\* handler is active
CowboyWrap(exc) ==
    IF IsInstance(exc, "KeyError") THEN "UpdateFailed" ELSE exc

CowboyFrame == UNCHANGED <<omadaVars, hostVars>>

\* the end of the Cowboy _async_update_data and of the refresh that ran it;
\* after a successful first refresh async_setup_entry stores the coordinator
\* in hass.data, forwards the platforms and returns True (__init__.py 33-41)
CowboyFinish(outcome, value) ==
    /\ cowboy_pc' = "idle"
    /\ cowboy_clock' = 0
    /\ cowboy_result' = outcome
    /\ cowboy_data' = Publish(cowboy_data, outcome, value)
    /\ IF cowboy_entry = "first_refresh"
       THEN LET s == SetupAfterFirstRefresh(FirstRefreshRaises(outcome))
            IN  /\ cowboy_entry' = s
                /\ cowboy_registry' = (s = "loaded")
                /\ cowboy_platforms' = (s = "loaded")
       ELSE UNCHANGED cowboyEntryVars

\* cowboy async_setup_entry lines 26-31: Cowboy.with_auth runs in the
\* executor; when it returns the coordinator is created and the first
\* refresh is due, when it raises the exception leaves async_setup_entry
CowboySetupStart ==
    /\ entry_domain = "cowboy"
    /\ cowboy_entry = "new"
    /\ \E auth \in {"ok"} \cup CowboyErrors :
        cowboy_entry' = IF auth = "ok" THEN "first_refresh"
                        ELSE "setup_raised"
    /\ UNCHANGED <<cowboy_pc, cowboy_clock, cowboy_result, cowboy_data,
                   cowboy_sw_version, cowboy_registry, cowboy_platforms>>
    /\ CowboyFrame

\* cowboy async_unload_entry (__init__.py 44-49): when the platforms unload,
\* the entry leaves hass.data
CowboyUnload ==
    /\ cowboy_entry = "loaded"
    /\ \E unload_ok \in BOOLEAN :
        IF unload_ok
        THEN /\ cowboy_registry' = FALSE
             /\ cowboy_platforms' = FALSE
             /\ cowboy_entry' = "unloaded"
        ELSE UNCHANGED cowboyEntryVars
    /\ UNCHANGED <<cowboy_pc, cowboy_clock, cowboy_result, cowboy_data,
                   cowboy_sw_version>>
    /\ CowboyFrame

\* _async_update_data enters asyncio.timeout(10) and hands fetch_data to the
\* executor (lines 46-49)
CowboyTickStart ==
    /\ cowboy_entry \in {"first_refresh", "loaded"}
    /\ cowboy_pc = "idle"
    /\ cowboy_pc' = "fetching"
    /\ cowboy_clock' = 0
    /\ UNCHANGED <<cowboy_result, cowboy_data, cowboy_sw_version,
                   cowboyEntryVars>>
    /\ CowboyFrame

\* a second passes while fetch_data runs
CowboyClock ==
    /\ cowboy_pc = "fetching"
    /\ cowboy_clock < COWBOY_TIMEOUT
    /\ cowboy_clock' = cowboy_clock + 1
    /\ UNCHANGED <<cowboy_pc, cowboy_result, cowboy_data, cowboy_sw_version,
                   cowboyEntryVars>>
    /\ CowboyFrame

\* fetch_data returns within the timeout (lines 62-69)
CowboyFetchReturns ==
    /\ cowboy_pc = "fetching"
    /\ cowboy_clock < COWBOY_TIMEOUT
    /\ \E bike \in Bikes :
        /\ cowboy_sw_version' = bike.firmware_version
        /\ CowboyFinish("returned", bike)
    /\ CowboyFrame

\* fetch_data raises within the timeout
CowboyFetchRaises ==
    /\ cowboy_pc = "fetching"
    /\ cowboy_clock < COWBOY_TIMEOUT
    /\ \E exc \in CowboyErrors :
        CowboyFinish(CowboyWrap(exc), [firmware_version |-> 1, battery |-> 0])
    /\ UNCHANGED cowboy_sw_version
    /\ CowboyFrame

\* the 10 seconds expire first: asyncio.timeout raises TimeoutError
CowboyTimeout ==
    /\ cowboy_pc = "fetching"
    /\ cowboy_clock = COWBOY_TIMEOUT
    /\ CowboyFinish(CowboyWrap("TimeoutError"),
                    [firmware_version |-> 1, battery |-> 0])
    /\ UNCHANGED cowboy_sw_version
    /\ CowboyFrame

CowboyNext ==
    \/ CowboySetupStart
    \/ CowboyUnload
    \/ CowboyTickStart
    \/ CowboyClock
    \/ CowboyFetchReturns
    \/ CowboyFetchRaises
    \/ CowboyTimeout

\* ------------------------------------------------------------------ whole
\* ------------------------------------------------------------ PCA301Ctrl
\* node ids as the digits of the text the line carries: one text per node
\* number, and node 1 written with a leading zero
NodeTexts == {<<n>> : n \in 1..NumNodes} \cup {<<0, 1>>}

\* int(nodeid)
int(text) == IF Len(text) = 1 THEN text[1] ELSE 10 * text[1] + text[2]

\* lines the serial reader delivers: the first token, whitespace around the
\* line, the node id field, the state field, the two bytes of the total and
\* of the current reading
Lines ==
    [lead : {"OK", "ERR"}, ws : BOOLEAN, nodeid : NodeTexts,
     state : {"0", "1", "2"}, total : {<<0, 5>>, <<1, 0>>},
     current : {<<0, 50>>}]

\* str.strip(): the whitespace around the line is removed
strip(line) == [line EXCEPT !.ws = FALSE]

\* OUTLET_STATUS_MSG.match(line): anchored at the start of the line, the
\* literal OK, and a state field that is 1 or 0
OUTLET_STATUS_MSG(line) ==
    ~line.ws /\ line.lead = "OK" /\ line.state \in {"0", "1"}

\* (hi << 8 | lo) / divisor of a reading of two bytes, as a fraction
Reading(bytes, divisor) ==
    [num |-> bytes[1] * 2^BYTE_SHIFT + bytes[2], den |-> divisor]

\* config.get(CONF_MAPPING, {}): names configured per node number
mapping == [n \in {1} |-> <<"lamp">>]

NoPlug == [absent |-> TRUE]

\* PCA301Plug.__init__
PCA301Plug(name, device_id, state, curr_consumption, total_consumption) ==
    [_name |-> name, _id |-> device_id, _state |-> state,
     _current |-> curr_consumption, _total |-> total_consumption]

\* PCA301Plug.set_state
set_state(plug, state) == [plug EXCEPT !._state = state]

\* a handle_line that builds a plug for every status line
handle_line_recreates(devs, line0) ==
    LET line == strip(line0)
    IN  IF OUTLET_STATUS_MSG(line)
        THEN LET nodeid == line.nodeid
                 name == IF int(nodeid) \in DOMAIN mapping
                         THEN mapping[int(nodeid)]
                         ELSE <<"pca301_node", nodeid>>
                 plug == PCA301Plug(name, nodeid, line.state = "1",
                                    Reading(line.current, CURRENT_DIVISOR),
                                    Reading(line.total, TOTAL_DIVISOR))
             IN  [devices |-> [devs EXCEPT ![nodeid] = plug],
                  devcb |-> <<nodeid>>, set_state |-> <<>>]
        ELSE [devices |-> devs, devcb |-> <<>>, set_state |-> <<>>]

\* JeelinkHandler.handle_line: the dict after the line, the node id of the
\* plug handed to add_devices (devcb) and of the plug whose set_state ran
handle_line(devs, line0) ==
    LET line == strip(line0)
    IN  IF OUTLET_STATUS_MSG(line)
        THEN LET nodeid == line.nodeid
                 is_on == line.state = "1"
                 name == IF int(nodeid) \in DOMAIN mapping
                         THEN mapping[int(nodeid)]
                         ELSE <<"pca301_node", nodeid>>
                 plug == PCA301Plug(name, nodeid, is_on,
                                    Reading(line.current, CURRENT_DIVISOR),
                                    Reading(line.total, TOTAL_DIVISOR))
             IN  IF devs[nodeid] # NoPlug
                 THEN [devices |-> [devs EXCEPT
                                       ![nodeid] = set_state(@, is_on)],
                       devcb |-> <<>>, set_state |-> <<nodeid>>]
                 ELSE [devices |-> [devs EXCEPT ![nodeid] = plug],
                       devcb |-> <<nodeid>>, set_state |-> <<>>]
        ELSE [devices |-> devs, devcb |-> <<>>, set_state |-> <<>>]

NoPcaEv == [line |-> <<>>, devcb |-> <<>>, set_state |-> <<>>]

\* the reader thread hands one line to handle_line
HandleLine ==
    /\ \E line \in Lines :
        LET r == handle_line(devices, line)
        IN  /\ devices' = r.devices
            /\ add_devices' = IF r.devcb = <<>> THEN add_devices
                              ELSE [add_devices EXCEPT ![r.devcb[1]] = @ + 1]
            /\ reported' = IF OUTLET_STATUS_MSG(strip(line))
                           THEN [reported EXCEPT ![line.nodeid] = TRUE]
                           ELSE reported
            /\ pca_ev' = [line |-> <<line>>, devcb |-> r.devcb,
                          set_state |-> r.set_state]
    /\ UNCHANGED <<omadaVars, cowboyVars, entry_domain, flow>>

Init ==
    /\ session = "none"
    /\ closes = 0
    /\ orphan = FALSE
    /\ logged_in = FALSE
    /\ jar = "absent"
    /\ remote_session = FALSE
    /\ pc = [t \in Threads |-> "idle"]
    /\ via_fetch = [t \in Threads |-> FALSE]
    /\ data = <<>>
    /\ clients_info = <<>>
    /\ last_update_success = TRUE
    /\ entry_state = "new"
    /\ registry = FALSE
    /\ platforms = FALSE
    /\ entities = {}
    /\ refresh_requested = FALSE
    /\ access_point_mac = "none"
    /\ result = "none"
    /\ returned = <<>>
    /\ login_sent = [t \in Tickers |-> 0]
    /\ started_auth = [t \in Tickers |-> FALSE]
    /\ authRejected = FALSE
    /\ waited = [t \in Tickers |-> 0]
    /\ ev = NoEv
    /\ cowboy_pc = "idle"
    /\ cowboy_clock = 0
    /\ cowboy_result = "none"
    /\ cowboy_data = <<>>
    /\ cowboy_sw_version = 0
    /\ cowboy_entry = "new"
    /\ cowboy_registry = FALSE
    /\ cowboy_platforms = FALSE
    /\ entry_domain \in {"omada_direct", "cowboy"}
    /\ flow = [exc |-> "none", validate |-> "none", step |-> "none"]
    /\ devices = [id \in NodeTexts |-> NoPlug]
    /\ add_devices = [id \in NodeTexts |-> 0]
    /\ reported = [id \in NodeTexts |-> FALSE]
    /\ pca_ev = NoPcaEv

Next ==
    \/ SetupStart
    \/ SetupLoginResponse
    \/ SetupDeviceInfoResponse
    \/ RequestRefresh
    \/ \E t \in Tickers : TickStart(t)
    \/ \E t \in Tickers : TickLoginResponse(t)
    \/ \E t \in Tickers : TickDataResponse(t)
    \/ \E t \in Tickers : TickClock(t)
    \/ UnloadStart
    \/ UnloadLogoutResponse
    \/ DirectConnect
    \/ DirectLogin
    \/ DirectFetchClients
    \/ DirectLoginResponse
    \/ DirectDataResponse
    \/ DirectFetchDeviceInfo
    \/ DirectDeviceInfoResponse
    \/ DirectLogout
    \/ DirectLogoutResponse
    \/ DirectClose
    \/ RemoteExpire
    \/ FlowStart
    \/ FlowLoginResponse
    \/ CowboyNext

Spec == Init /\ [][Next]_vars

CowboySpec == Init /\ [][CowboyNext]_vars

PcaNext == HandleLine

PcaSpec == Init /\ [][PcaNext]_vars

\* ------------------------------------------- polling on a reliable network
\* A step of a network that delivers and of an access point that accepts the
\* configured credentials: connect() succeeds; every request is answered over
\* HTTP; a login with
\* 200, the marker and a JSESSIONID of a live session; a data request sets no
\* cookie and is served with a JSON mapping when it carries the JSESSIONID of
\* a live session
ReliableStep ==
    /\ ev'.exc \notin ConnectOutcomes
    /\ ev'.kind \in {"none", "http"}
    /\ ev'.op = "login_response" =>
        /\ ev'.status = 200
        /\ ev'.marker
        /\ jar' = "valid"
        /\ remote_session'
    /\ ev'.op \in {"data_response", "device_info_response"} =>
        /\ jar' = jar
        /\ (remote_session /\ jar = "valid") =>
            /\ ev'.exc = "none"
            /\ ev'.thread \in Tickers => result' = "returned"

\* no request is in flight
Quiet == \A t \in Threads : pc[t] = "idle"

\* the scheduled tick of the coordinator
HealTick ==
    /\ \/ TickStart("scheduled")
       \/ TickLoginResponse("scheduled")
       \/ TickDataResponse("scheduled")
    /\ ReliableStep

\* setup of the entry, or a caller that connects a client and builds a
\* coordinator on it; the session may expire between two ticks
HealNext ==
    \/ SetupStart /\ ReliableStep
    \/ SetupLoginResponse /\ ReliableStep
    \/ SetupDeviceInfoResponse /\ ReliableStep
    \/ DirectConnect /\ ReliableStep
    \/ RemoteExpire /\ Quiet
    \/ HealTick

\* the update interval timer fires again after every tick, and the network
\* answers every request of a tick (coordinator.py 15-21)
HealSpec == Init /\ [][HealNext]_vars /\ WF_vars(HealTick)

\* ================================================================ claims
InFlight == {t \in Tickers : pc[t] # "idle"}

\* C1: the published snapshot is absent or is the value the most recent
\* successful tick returned, and clients_info is that value's client list;
\* so a tick that ends in UpdateFailed changes neither of them.
C1_SnapshotIsLastSuccess ==
    /\ data = returned
    /\ clients_info = IF returned = <<>> THEN <<>> ELSE returned[1].clients

\* a tick failed after an earlier tick had published a non-empty client list
C1_Witness ==
    /\ result = "UpdateFailed"
    /\ data # <<>>
    /\ data[1].clients # <<>>
    /\ clients_info = data[1].clients

\* C2: once a data request was rejected with 401 while logged_in, logged_in
\* is false, and no data request goes out before a login request was sent.
C2_RejectedSessionForcesLogin ==
    authRejected =>
        /\ ~logged_in
        /\ \A t \in Threads : pc[t] # "get"

\* C3 as stated: logged_in is set only on status 200 with the success marker
\* and a non-empty JSESSIONID in the jar; every other login outcome raises
\* LoginError and leaves logged_in false.
C3_Original ==
    ev.op = "login_response" =>
        IF ev.kind = "http" /\ ev.status = 200 /\ ev.marker /\ jar = "valid"
        THEN logged_in
        ELSE ev.exc = "LoginError" /\ ~logged_in

\* C3 amended: logged_in is set exactly on status 200 with the success marker
\* in the body or Content-Length 0, and a non-empty JSESSIONID in the jar;
\* every other outcome of the login request raises LoginError and leaves
\* logged_in false.
C3_LoginSuccessCondition ==
    ev.op = "login_response" =>
        IF ev.kind = "http" /\ ev.status = 200 /\ (ev.marker \/ ev.cl0)
           /\ jar = "valid"
        THEN logged_in /\ ev.exc = "none"
        ELSE ev.exc = "LoginError" /\ ~logged_in

\* a login accepted on Content-Length 0 alone, and a login refused for a
\* missing cookie, are both reachable; this is the first
C3_Witness ==
    /\ ev.op = "login_response"
    /\ logged_in
    /\ ev.status = 200
    /\ ~ev.marker
    /\ ev.cl0

\* C4 as stated: a step sends a login request exactly when it entered
\* ensure_authenticated with logged_in false; a tick that started logged in
\* sends none, any tick sends at most one.
C4_Original ==
    /\ ev.post_sent <=> ev.ea_unauth
    /\ \A t \in Tickers :
        /\ login_sent[t] <= 1
        /\ started_auth[t] => login_sent[t] = 0

\* C4 amended: a login request is sent only by a step that entered
\* ensure_authenticated with logged_in false, and such a step sends it unless
\* it is left without an open session (connect() failed, or the session is
\* closed); a tick that started logged in sends none, any tick at most one.
C4_LoginOnlyWhenUnauthenticated ==
    /\ ev.post_sent => ev.ea_unauth
    /\ (ev.ea_unauth /\ ~ev.post_sent) => session # "open"
    /\ \A t \in Tickers :
        /\ login_sent[t] <= 1
        /\ started_auth[t] => login_sent[t] = 0

\* a tick that started unauthenticated has sent one login request and has
\* reached its data request
C4_Witness ==
    \E t \in Tickers :
        /\ pc[t] = "get"
        /\ ~started_auth[t]
        /\ login_sent[t] = 1

\* C5: when the response (or failure) of a logout request has been handled,
\* logged_in is false.
C5_LogoutClearsFlag ==
    ev.op = "logout_response" => ~logged_in

\* C6: once async_unload_entry has unloaded the platforms and finished, the
\* client's session is closed.
C6_UnloadClosesTransport ==
    entry_state = "unloaded" => session # "open"

\* C7: at most one fetch-and-authenticate sequence is in flight per
\* coordinator; a manual refresh asked for during a tick waits for it.
C7_SingleFlight ==
    Cardinality(InFlight) <= 1

\* a manual refresh was requested while the scheduled tick awaits a response
C7_Witness ==
    /\ refresh_requested
    /\ pc["scheduled"] \in {"post", "get"}
    /\ pc["manual"] = "idle"

\* C8: no tick is still in flight after the watchdog duration has elapsed.
C8_TickEndsWithinTimeout ==
    \A t \in Tickers : pc[t] # "idle" => waited[t] <= WatchdogTimeout

\* C9: _async_update_data ends by returning a snapshot with the keys
\* 'clients' and 'access_point_mac' or by raising UpdateFailed.
C9_UpdateOutcomes ==
    /\ result \in {"none", "returned", "UpdateFailed"}
    /\ result = "returned" =>
        /\ returned # <<>>
        /\ DOMAIN returned[1] = {"clients", "access_point_mac"}

\* fetch_clients returned a JSON value that is not a mapping, and the
\* AttributeError of .get came out as UpdateFailed
C9_Witness ==
    /\ result = "UpdateFailed"
    /\ ev.op = "data_response"
    /\ ev.thread \in Tickers
    /\ ev.exc = "none"

\* C10: the Cowboy _async_update_data ends by returning or by raising
\* UpdateFailed, whatever fetch_data raised and also on the timeout.
C10_CowboyNormalizesFailures ==
    cowboy_result \in {"none", "returned", "UpdateFailed"}

\* C11: platforms are forwarded and async_setup_entry has returned True only
\* after the first refresh published a value; after a failed first refresh
\* setup has ended not ready with no platform forwarded (Omada and Cowboy).
C11_ActiveOnlyAfterFirstRefresh ==
    /\ platforms => entry_state = "loaded"
    /\ entry_state = "loaded" => data # <<>>
    /\ entry_state = "not_ready" =>
        ~platforms /\ result # "returned" /\ data = <<>>
    /\ cowboy_platforms => cowboy_entry = "loaded"
    /\ cowboy_entry = "loaded" => cowboy_data # <<>>
    /\ cowboy_entry = "not_ready" =>
        ~cowboy_platforms /\ cowboy_result # "returned" /\ cowboy_data = <<>>

\* the first refresh of the Omada entry failed on its data request
C11_Witness ==
    /\ entry_state = "not_ready"
    /\ result = "UpdateFailed"
    /\ ev.op = "data_response"
    /\ ~platforms

\* C12: whenever logged_in is true the client has an open session whose jar
\* holds a non-empty JSESSIONID of a session that is live at the access
\* point.
C12_LoggedInImpliesLiveSession ==
    logged_in => session = "open" /\ jar = "valid" /\ remote_session

\* C13: whenever a coordinator exists and the access point holds no live
\* session, a tick eventually publishes a snapshot.
C13_PollingSelfHeals ==
    (entry_state \in {"loaded", "direct"} /\ ~remote_session)
        ~> (ev.op = "data_response" /\ ev.thread \in Tickers
            /\ result = "returned")

\* C14: a step puts the GET of fetch_clients or of fetch_device_info on the
\* wire only with logged_in true and a session present.
C14_FetchBehindAuthGuard ==
    [][\A t \in Threads :
          (pc'[t] \in {"get", "devget"} /\ pc'[t] # pc[t]) =>
              (logged_in' /\ session' # "none")]_vars

\* C15: close() never raises, leaves no session open, calls session.close()
\* at most once per session, and a second close() changes nothing.
C15_CloseIdempotent ==
    /\ closes <= 1
    /\ close(close(Client)) = close(Client)
    /\ close(Client).session # "open"
    /\ ev.op = "close" => ev.exc = "none" /\ session # "open"

\* close() was called on a session that was closed already
C15_Witness ==
    /\ ev.op = "close"
    /\ ev.session0 = "closed"
    /\ session = "closed"
    /\ closes = 1

\* C16: hass.data[DOMAIN] holds the entry of a loaded instance, and holds
\* none for an instance whose setup failed (returned False, raised, or ended
\* not ready after a failed first refresh) or that was unloaded (Omada and
\* Cowboy).
C16_RegistryTracksSetup ==
    /\ entry_state = "loaded" => registry
    /\ entry_state \in {"setup_false", "setup_raised", "not_ready",
                        "unloaded"} => ~registry
    /\ cowboy_entry = "loaded" => cowboy_registry
    /\ cowboy_entry \in {"setup_raised", "not_ready", "unloaded"} =>
        ~cowboy_registry

\* C17: a call of fetch_clients ends without an exception or with
\* FetchDataError, at its first step (ensure_authenticated, connect) as well
\* as when its data response is handled.
C17_FetchClientsRaisesOnlyFetchDataError ==
    /\ ev.op = "fetch_clients" => ev.exc \in {"none", "FetchDataError"}
    /\ (ev.op = "data_response" /\ ev.thread = "main") =>
        ev.exc \in {"none", "FetchDataError"}

\* C18: a call that enters ensure_authenticated with logged_in false and no
\* session runs connect() (a new session with an empty jar, or connect's
\* exception and no request) and only then sends the login request; with a
\* session present it keeps that session and its jar, meets no exception of
\* connect(), and sends the login request on it when it is open.
C18_ConnectOnlyWithoutSession ==
    [][(ev'.op \in {"login", "fetch_clients", "tick_start"} /\ ev'.ea_unauth)
       => /\ session = "none" =>
              \/ /\ session' = "open"
                 /\ jar' = "absent"
                 /\ ev'.post_sent
              \/ /\ session' = "none"
                 /\ ev'.exc \in ConnectOutcomes
                 /\ ~ev'.post_sent
          /\ session # "none" =>
              /\ session' = session
              /\ jar' = jar
              /\ closes' = closes
              /\ ev'.exc \notin ConnectOutcomes
              /\ ev'.post_sent <=> session = "open"]_vars

\* a login entered without a session has connected and sent its request, and
\* (second disjunct) a login entered on an existing session that holds a
\* cookie has sent its request on that session
C18_Witness ==
    /\ ev.op \in {"login", "fetch_clients", "tick_start"}
    /\ ev.ea_unauth
    /\ ev.post_sent
    /\ ev.session0 = "open"
    /\ jar = "valid"
    /\ session = "open"

\* C19: a logout() call made with no session or with logged_in false sends
\* no request, raises nothing and leaves session, jar and logged_in as they
\* were.
C19_LogoutNoOp ==
    [][(ev'.op = "logout" /\ (session = "none" \/ ~logged_in))
       => /\ pc' = pc
          /\ ev'.exc = "none"
          /\ session' = session
          /\ closes' = closes
          /\ jar' = jar
          /\ logged_in' = logged_in
          /\ remote_session' = remote_session]_vars

\* logout() returned at once on an open session that is not logged in
C19_Witness ==
    /\ ev.op = "logout"
    /\ ev.exc = "none"
    /\ pc["main"] = "idle"
    /\ session = "open"
    /\ ~logged_in

\* C20: when connect() or login() of the Omada async_setup_entry has raised,
\* setup has returned False with nothing stored in hass.data[DOMAIN] and no
\* platform forwarded; an entry is in hass.data[DOMAIN] only with a client
\* that has logged in.
C20_SetupFalseOnLoginFailure ==
    /\ (ev.op = "setup_start" /\ ev.exc # "none") =>
        entry_state = "setup_false"
    /\ (ev.op = "login_response" /\ ev.exc # "none"
        /\ entry_state \notin {"direct"} /\ ev.thread = "main") =>
        entry_state = "setup_false"
    /\ entry_state = "setup_false" =>
        ~registry /\ ~platforms /\ ~logged_in /\ data = <<>>
    /\ registry => logged_in

\* connect() failed in the SSL context set-up and setup returned False
C20_Witness ==
    /\ entry_state = "setup_false"
    /\ ev.op = "setup_start"
    /\ ev.exc = "SSLError"
    /\ ~registry

\* C21: when validate_input has ended, its temporary client holds no open
\* session; it returned the title exactly when connect() and login() raised
\* nothing (so the client had logged in), raised InvalidAuth exactly on a
\* LoginError and CannotConnect exactly on any other exception.
C21_ValidateInputOutcomes ==
    entry_state = "validated" =>
        /\ session # "open"
        /\ flow.validate \in {"title", "InvalidAuth", "CannotConnect"}
        /\ flow.validate = "title" <=> flow.exc = "none"
        /\ flow.validate = "title" => logged_in
        /\ flow.validate = "InvalidAuth" <=> IsInstance(flow.exc, "LoginError")
        /\ flow.step = "create_entry" <=> flow.validate = "title"

\* the login of validate_input was refused: InvalidAuth, session closed
C21_Witness ==
    /\ entry_state = "validated"
    /\ flow.validate = "InvalidAuth"
    /\ flow.exc = "LoginError"
    /\ session = "closed"

\* C22: when the Omada async_setup_entry has ended without success (returned
\* False, raised out of fetch_device_info, or ended not ready after a failed
\* first refresh), the client's session is not open.
C22_FailedSetupReleasesTransport ==
    entry_state \in {"setup_false", "setup_raised", "not_ready"} =>
        session # "open"

\* C23: a login(), fetch_clients() or tick that finds the session closed and
\* has a request to send (any fetch_clients or tick; a login entered with
\* logged_in false) has an open session again and its request in flight.
C23_ReconnectsAfterClose ==
    (/\ ev.op \in {"login", "fetch_clients", "tick_start"}
     /\ ev.session0 = "closed"
     /\ ev.ea_unauth \/ ev.op # "login")
    => /\ session = "open"
       /\ pc[ev.thread] \in {"post", "get"}

\* C24: the client owns at most one open transport: every session it created
\* other than the one self.session refers to has been closed.
C24_AtMostOneOpenTransport == ~orphan

\* C25: a tracker entity reports is_connected exactly when its client's MAC
\* is listed in the snapshot the coordinator published last.
C25_ConnectedIffListed ==
    \A mac \in entities :
        is_connected(data, mac) <=>
            /\ data # <<>>
            /\ \E i \in DOMAIN data[1].clients : data[1].clients[i] = mac

\* C26: a client listed in the published snapshot of a loaded entry
\* eventually has a tracker entity.
C26_ListedClientGetsEntity ==
    \A mac \in Macs :
        (/\ entry_state = "loaded"
         /\ data # <<>>
         /\ \E i \in DOMAIN data[1].clients : data[1].clients[i] = mac)
        ~> (mac \in entities)

\* C27: at every moment one plug has been handed to add_devices for each node
\* id that a status line has reported and none for any other, and a plug is
\* in the devices dict for exactly those ids; a line that is no status line
\* changes nothing and calls nothing, the first status line of an id creates
\* its plug with the line's state and hands it over, and a later status line
\* of that id only calls set_state with the line's state.
C27_OnePlugPerNode ==
    /\ [](\A id \in NodeTexts :
            /\ add_devices[id] = IF reported[id] THEN 1 ELSE 0
            /\ devices[id] # NoPlug <=> reported[id])
    /\ [][LET line == pca_ev'.line[1]
              id == line.nodeid
              is_on == line.state = "1"
          IN  IF ~OUTLET_STATUS_MSG(strip(line))
              THEN /\ UNCHANGED <<devices, add_devices>>
                   /\ pca_ev'.devcb = <<>> /\ pca_ev'.set_state = <<>>
              ELSE IF reported[id]
              THEN /\ devices' = [devices EXCEPT ![id]._state = is_on]
                   /\ UNCHANGED add_devices
                   /\ pca_ev'.devcb = <<>> /\ pca_ev'.set_state = <<id>>
              ELSE /\ \A other \in NodeTexts \ {id} :
                          devices'[other] = devices[other]
                   /\ devices'[id]._id = id /\ devices'[id]._state = is_on
                   /\ devices'[id]._total = Reading(line.total, TOTAL_DIVISOR)
                   /\ add_devices' = [add_devices EXCEPT ![id] = 1]
                   /\ pca_ev'.devcb = <<id>> /\ pca_ev'.set_state = <<>>
      ]_pcaVars

\* node 1 was created from a line with one total reading and state off, a
\* later status line of node 1 with another total and state on has only set
\* its state; node 01 has a plug of its own
C27_Witness ==
    /\ reported[<<1>>] /\ add_devices[<<1>>] = 1
    /\ reported[<<0, 1>>] /\ add_devices[<<0, 1>>] = 1
    /\ pca_ev.set_state = <<(<<1>>)>> /\ pca_ev.devcb = <<>>
    /\ pca_ev.line[1].total = <<1, 0>>
    /\ devices[<<1>>]._total = Reading(<<0, 5>>, TOTAL_DIVISOR)
    /\ devices[<<1>>]._state

====
